---------------------------- MODULE Spec2Model ----------------------------
(***************************************************************************)
(* State-machine model of obs-websocket's WebSocketServer                  *)
(* (src/src/WebSocketServer.cpp): the session table guarded by             *)
(* _sessionMutex, the open/close/message handlers that websocketpp runs    *)
(* one after another on the I/O thread, the broadcast tasks of the worker  *)
(* pool, and Start()/Stop() on the controlling thread.                     *)
(*                                                                         *)
(* The transport (websocketpp) and the request handler that identifies a   *)
(* session are not part of the modelled file; they appear as environment   *)
(* actions (ClientConnect, ClientClose, RequestHandlerIdentify) and as the *)
(* nondeterministic error results of pause_reading, close and send.        *)
(***************************************************************************)
EXTENDS Integers, Sequences, FiniteSets, TLC

(* ------------------------------ bounds -------------------------------- *)
\* connection handles that may ever be accepted
MaxConns == 2
\* worker-pool slots: broadcast tasks queued or running at the same time
MaxTasks == 1
\* total number of BroadcastEvent calls in a behaviour
MaxBroadcasts == 1
\* number of distinct values GenerateSalt can return
MaxSalt == 1

Conns == 1..MaxConns
Tasks == 1..MaxTasks
Salts == 1..MaxSalt

\* event-intent bits: A and B of the two-session scenario, as a set of masks
Intents == {1, 2}
\* subscription masks a request handler may install: none, {A}, {A,B}
SubscriptionMasks == {0, 1, 3}

\* values of the Content-Type request header tried by clients
ContentTypes == {"", "application/json", "application/msgpack", "text/plain"}

VARIABLES
    listening,       \* _server.is_listening()
    serverThread,    \* _serverThread: "none", "running" or "joined"
    config,          \* _serverPort, _serverPassword, _debugEnabled,
                     \* _authenticationRequired, _authenticationSalt, _authenticationSecret
    ctl,             \* the thread calling Start()/Stop(): pc, Stop's loop position
    lock,            \* holder of _sessionMutex: Free, ByStop or ByTask(t)
    sessions,        \* _sessions: handle -> WebSocketSession
    conn,            \* transport state of each connection
    io,              \* the I/O thread: handler position, its handle, onClose's snapshot
    tasks,           \* _threadPool: the broadcast lambdas
    nBroadcasts,     \* BroadcastEvent calls so far
    wire,            \* per handle, the _server.send calls made for its Session
    signals,         \* per handle, the names of the signals emitted so far
    lastCall,        \* outcome of the last Start()/Stop() call
    listing          \* the vector GetWebSocketSessions() is building

vars == <<listening, serverThread, config, ctl, lock, sessions, conn, io, tasks,
          nBroadcasts, wire, signals, lastCall, listing>>

(* ------------------------------ helpers ------------------------------- *)
\* uint64 '&' of BroadcastEvent's subscription test
RECURSIVE BitAnd(_, _)
BitAnd(a, b) ==
    IF a = 0 \/ b = 0 THEN 0
    ELSE (a % 2) * (b % 2) + 2 * BitAnd(a \div 2, b \div 2)

\* first key of a std::map iteration restricted to the keys not yet visited
FirstOf(S) == CHOOSE x \in S : \A y \in S : x <= y

\* holders of _sessionMutex
Free == <<"free", 0>>
ByStop == <<"Stop", 0>>
ByTask(t) == <<"task", t>>
ByList == <<"GetWebSocketSessions", 0>>
ByIo == <<"io", 0>>

NoSession == [present |-> FALSE]

\* a default-constructed WebSocketSession
NewSession ==
    [remoteAddress |-> 0, connectedAt |-> 0,
     incomingMessages |-> 0, outgoingMessages |-> 0,
     encoding |-> "Json", isIdentified |-> FALSE,
     eventSubscriptions |-> 0, challenge |-> 0]

\* Utils::Crypto::GenerateSecret(password, salt): a deterministic derivation
GenerateSecret(password, salt) == <<password, salt>>

\* configurations the host may hand to Start()
Configs ==
    [ServerPort : {4444}, ServerPassword : {"secret"},
     DebugEnabled : {FALSE}, AuthRequired : BOOLEAN]

NoConfig ==
    [serverPort |-> 0, serverPassword |-> "", debugEnabled |-> FALSE,
     authenticationRequired |-> FALSE, authenticationSalt |-> 0,
     authenticationSecret |-> <<"", 0>>]

IdleTask == [state |-> "idle", intent |-> 0, todo |-> {},
             messageJson |-> "", messageMsgPack |-> ""]

IdleIo == [pc |-> "idle", hdl |-> 0, contentType |-> "", snap |-> NoSession]

\* the calling thread outside Start() and Stop()
IdleCtl == [pc |-> "idle", todo |-> {}, visited |-> {}]

\* a connection the transport holds no state for
NoConn == [state |-> "none", closeCode |-> "none", paused |-> FALSE]

\* _server.run() has returned: nothing is left for the event loop to do
LoopOutOfWork ==
    /\ ~listening
    /\ io.pc = "idle"
    /\ \A h \in Conns : conn[h].state \in {"none", "failed", "closed"}

\* the error results _server.pause_reading can report for a connection
PauseErrors(h) == BOOLEAN
\* the error results _server.close can report for a connection: a connection
\* that is no longer open cannot be closed again
CloseErrors(h) == {conn[h].state # "open"}

\* the error results _server.send can report for a connection: nothing can
\* be sent on a connection that is no longer open
SendErrors(h) == {conn[h].state # "open"}

\* _server.send(hdl, payload, opcode, errorCode): the call and its result
Send(w, h, frame, errorCode) ==
    [w EXCEPT ![h] = Append(@, [frame EXCEPT !.error = errorCode])]

\* _server.pause_reading: reads stop on an open connection (a connection
\* already closing reads no more frames either way)
PauseReading(c) == IF c.state = "open" THEN [c EXCEPT !.paused = TRUE] ELSE c
\* _server.close / conn->close: the closing handshake starts with this code
Close(c, code) == [c EXCEPT !.state = "closing", !.closeCode = code]

Init ==
    /\ listening = FALSE
    /\ serverThread = "none"
    /\ config = NoConfig
    /\ ctl = IdleCtl
    /\ lock = Free
    /\ sessions = <<>>
    /\ conn = [h \in Conns |-> NoConn]
    /\ io = IdleIo
    /\ tasks = [t \in Tasks |-> IdleTask]
    /\ nBroadcasts = 0
    /\ wire = [h \in Conns |-> <<>>]
    /\ signals = [h \in Conns |-> <<>>]
    /\ lastCall = "none"
    /\ listing = {}

(* ---------------------- Start() and Stop() ---------------------------- *)
\* Start reconfiguring and listening again whether or not it is listening
StartWithoutTest ==
    /\ ctl.pc = "idle"
    /\ \E conf \in Configs, salt \in Salts :
            config' = [serverPort |-> conf.ServerPort,
                          serverPassword |-> conf.ServerPassword,
                          debugEnabled |-> conf.DebugEnabled,
                          authenticationRequired |-> conf.AuthRequired,
                          authenticationSalt |-> salt,
                          authenticationSecret |->
                              GenerateSecret(conf.ServerPassword, salt)]
    /\ listening' = TRUE
    /\ serverThread' = "running"
    /\ lastCall' = "Start: started"
    /\ UNCHANGED <<ctl, lock, sessions, conn, io, tasks, nBroadcasts, wire, signals, listing>>

\* Start spawning the I/O thread although listen() failed
StartSpawningOnFailure ==
    /\ ctl.pc = "idle"
    /\ IF listening
       THEN /\ lastCall' = "Start: already listening"
            /\ UNCHANGED <<listening, serverThread, config>>
       ELSE \E conf \in Configs, salt \in Salts, listenOk \in BOOLEAN :
            /\ config' = [serverPort |-> conf.ServerPort,
                          serverPassword |-> conf.ServerPassword,
                          debugEnabled |-> conf.DebugEnabled,
                          authenticationRequired |-> conf.AuthRequired,
                          authenticationSalt |-> salt,
                          authenticationSecret |->
                              GenerateSecret(conf.ServerPassword, salt)]
            /\ serverThread' = "running"
            /\ listening' = listenOk
            /\ lastCall' = IF listenOk THEN "Start: started"
                           ELSE "Start: listen failed"
    /\ UNCHANGED <<ctl, lock, sessions, conn, io, tasks, nBroadcasts, wire, signals, listing>>

\* WebSocketServer::Start: the listening test, GetConfig() (which may return
\* null), the configuration snapshot, listen() and the I/O thread
Start ==
    /\ ctl.pc = "idle"
    /\ IF listening
       THEN /\ lastCall' = "Start: already listening"
            /\ UNCHANGED <<listening, serverThread, config>>
       ELSE \/ /\ lastCall' = "Start: no config"
               /\ UNCHANGED <<listening, serverThread, config>>
            \/ \E conf \in Configs, salt \in Salts, listenOk \in BOOLEAN :
               /\ config' = [serverPort |-> conf.ServerPort,
                             serverPassword |-> conf.ServerPassword,
                             debugEnabled |-> conf.DebugEnabled,
                             authenticationRequired |-> conf.AuthRequired,
                             authenticationSalt |-> salt,
                             authenticationSecret |->
                                 GenerateSecret(conf.ServerPassword, salt)]
               /\ IF listenOk
                  THEN /\ listening' = TRUE
                       /\ serverThread' = "running"
                       /\ lastCall' = "Start: started"
                  ELSE /\ lastCall' = "Start: listen failed"
                       /\ UNCHANGED <<listening, serverThread>>
    /\ UNCHANGED <<ctl, lock, sessions, conn, io, tasks, nBroadcasts, wire, signals, listing>>

\* StopBegin starting the teardown whether or not the server is listening
StopBeginWithoutTest ==
    /\ ctl.pc = "idle"
    /\ listening' = FALSE
    /\ ctl' = [ctl EXCEPT !.pc = "stop_lock"]
    /\ lastCall' = "Stop: stopping"
    /\ UNCHANGED <<serverThread, config, lock, sessions, conn, io, tasks,
                   nBroadcasts, wire, signals, listing>>

\* Stop(), lines 119-124: the listening test and stop_listening()
StopBegin ==
    /\ ctl.pc = "idle"
    /\ IF ~listening
       THEN /\ lastCall' = "Stop: not listening"
            /\ UNCHANGED <<listening, ctl>>
       ELSE /\ listening' = FALSE
            /\ ctl' = [ctl EXCEPT !.pc = "stop_lock"]
            /\ lastCall' = "Stop: stopping"
    /\ UNCHANGED <<serverThread, config, lock, sessions, conn, io, tasks,
                   nBroadcasts, wire, signals, listing>>

\* Stop(), line 126: take _sessionMutex and start the iteration of _sessions
StopLock ==
    /\ ctl.pc = "stop_lock"
    /\ lock = Free
    /\ lock' = ByStop
    /\ ctl' = [pc |-> "stop_loop", todo |-> DOMAIN sessions, visited |-> {}]
    /\ UNCHANGED <<listening, serverThread, config, sessions, conn, io, tasks,
                   nBroadcasts, wire, signals, lastCall, listing>>

\* one iteration of Stop()'s loop, lines 128-139: pause_reading, then close
\* unless pause_reading reported an error
StopTeardown(c, pauseErr, closeErr) ==
    IF pauseErr THEN c
    ELSE IF closeErr THEN PauseReading(c)
    ELSE Close(PauseReading(c), "going_away")

\* StopCloseSession leaving the loop when pause_reading or close reports an error
StopCloseSessionAbortingOnError ==
    /\ ctl.pc = "stop_loop"
    /\ ctl.todo # {}
    /\ LET h == FirstOf(ctl.todo) IN
       \E pauseErr \in PauseErrors(h), closeErr \in CloseErrors(h) :
          /\ conn' = [conn EXCEPT ![h] = StopTeardown(@, pauseErr, closeErr)]
          /\ ctl' = [ctl EXCEPT !.todo = IF pauseErr \/ closeErr THEN {} ELSE @ \ {h},
                                !.visited = @ \cup {h}]
    /\ UNCHANGED <<listening, serverThread, config, lock, sessions, io, tasks,
                   nBroadcasts, wire, signals, lastCall, listing>>

StopCloseSession ==
    /\ ctl.pc = "stop_loop"
    /\ ctl.todo # {}
    /\ LET h == FirstOf(ctl.todo) IN
       /\ \E pauseErr \in PauseErrors(h), closeErr \in CloseErrors(h) :
              conn' = [conn EXCEPT ![h] = StopTeardown(@, pauseErr, closeErr)]
       /\ ctl' = [ctl EXCEPT !.todo = @ \ {h}, !.visited = @ \cup {h}]
    /\ UNCHANGED <<listening, serverThread, config, lock, sessions, io, tasks,
                   nBroadcasts, wire, signals, lastCall, listing>>

\* Stop(), line 141: lock.unlock()
StopUnlock ==
    /\ ctl.pc = "stop_loop"
    /\ ctl.todo = {}
    /\ lock' = Free
    /\ ctl' = [ctl EXCEPT !.pc = "stop_wait"]
    /\ UNCHANGED <<listening, serverThread, config, sessions, conn, io, tasks,
                   nBroadcasts, wire, signals, lastCall, listing>>

\* Stop(), line 143: _threadPool.waitForDone() returns when no task is left
PoolDone == \A t \in Tasks : tasks[t].state = "idle"

StopWaitForDone ==
    /\ ctl.pc = "stop_wait"
    /\ PoolDone
    /\ ctl' = [ctl EXCEPT !.pc = "stop_poll"]
    /\ UNCHANGED <<listening, serverThread, config, lock, sessions, conn, io,
                   tasks, nBroadcasts, wire, signals, lastCall, listing>>

\* Stop(), lines 146-148: one evaluation of _sessions.size() > 0, made without
\* _sessionMutex; a non-empty table sleeps and polls again
StopPoll ==
    /\ ctl.pc = "stop_poll"
    /\ ctl' = IF Cardinality(DOMAIN sessions) > 0 THEN ctl
              ELSE [ctl EXCEPT !.pc = "stop_join"]
    /\ UNCHANGED <<listening, serverThread, config, lock, sessions, conn, io,
                   tasks, nBroadcasts, wire, signals, lastCall, listing>>

\* StopJoin returning without waiting for the I/O thread
StopJoinWithoutWaiting ==
    /\ ctl.pc = "stop_join"
    /\ serverThread = "running"
    /\ serverThread' = "joined"
    /\ ctl' = IdleCtl
    /\ lastCall' = "Stop: stopped"
    /\ UNCHANGED <<listening, config, lock, sessions, conn, io, tasks,
                   nBroadcasts, wire, signals, listing>>

\* Stop(), line 150: _serverThread.join() returns once ServerRunner has left
\* _server.run()
StopJoin ==
    /\ ctl.pc = "stop_join"
    /\ serverThread = "running"
    /\ LoopOutOfWork
    /\ serverThread' = "joined"
    /\ ctl' = IdleCtl
    /\ lastCall' = "Stop: stopped"
    /\ UNCHANGED <<listening, config, lock, sessions, conn, io, tasks,
                   nBroadcasts, wire, signals, listing>>

\* InvalidateTeardown closing the connection although pause_reading failed
InvalidateTeardownClosingAnyway(c, pauseErr, closeErr) ==
    IF closeErr THEN c
    ELSE IF pauseErr THEN Close(c, "SessionInvalidated")
    ELSE Close(PauseReading(c), "SessionInvalidated")

\* WebSocketServer::InvalidateSession: pause_reading, then close with
\* SessionInvalidated unless pause_reading reported an error
InvalidateTeardown(c, pauseErr, closeErr) ==
    IF pauseErr THEN c
    ELSE IF closeErr THEN PauseReading(c)
    ELSE Close(PauseReading(c), "SessionInvalidated")

InvalidateSession(h) ==
    /\ conn[h].state \in {"open", "closing"}
    /\ \E pauseErr \in PauseErrors(h), closeErr \in CloseErrors(h) :
           conn' = [conn EXCEPT ![h] = InvalidateTeardown(@, pauseErr, closeErr)]
    /\ UNCHANGED <<listening, serverThread, config, ctl, lock, sessions, io,
                   tasks, nBroadcasts, wire, signals, lastCall, listing>>

\* WebSocketServer::GetWebSocketSessions, lines 177-185: the copy made
\* under _sessionMutex
SessionState(h, s) ==
    [hdl |-> h, remoteAddress |-> s.remoteAddress,
     connectedAt |-> s.connectedAt,
     incomingMessages |-> s.incomingMessages,
     outgoingMessages |-> s.outgoingMessages]

GetWebSocketSessions ==
    /\ lock = Free
    /\ lock' = ByList
    /\ listing' = {SessionState(h, sessions[h]) : h \in DOMAIN sessions}
    /\ UNCHANGED <<listening, serverThread, config, ctl, sessions, conn, io,
                   tasks, nBroadcasts, wire, signals, lastCall>>

\* GetWebSocketSessions, lines 186-188: unlock and hand the vector to the caller
GetWebSocketSessionsReturn ==
    /\ lock = ByList
    /\ lock' = Free
    /\ listing' = {}
    /\ UNCHANGED <<listening, serverThread, config, ctl, sessions, conn, io,
                   tasks, nBroadcasts, wire, signals, lastCall>>

(* ------------------- transport and request handler -------------------- *)
\* the event loop accepts a client's upgrade request on the listening socket
ClientConnect(h) ==
    /\ listening
    /\ serverThread = "running"
    /\ io.pc = "idle"
    /\ conn[h].state = "none"
    /\ conn' = [conn EXCEPT ![h].state = "handshake"]
    /\ UNCHANGED <<listening, serverThread, config, ctl, lock, sessions, io,
                   tasks, nBroadcasts, wire, signals, lastCall, listing>>

\* the opening handshake of an accepted connection fails: the connection is
\* dropped without onOpen or onClose being called for it
HandshakeFail(h) ==
    /\ serverThread = "running"
    /\ io.pc = "idle"
    /\ conn[h].state = "handshake"
    /\ conn' = [conn EXCEPT ![h].state = "failed"]
    /\ UNCHANGED <<listening, serverThread, config, ctl, lock, sessions, io,
                   tasks, nBroadcasts, wire, signals, lastCall, listing>>

\* the event loop finds that the peer has closed an open connection, or that
\* the connection is lost
ClientClose(h) ==
    /\ serverThread = "running"
    /\ io.pc = "idle"
    /\ conn[h].state = "open"
    /\ conn' = [conn EXCEPT ![h].state = "closing"]
    /\ UNCHANGED <<listening, serverThread, config, ctl, lock, sessions, io,
                   tasks, nBroadcasts, wire, signals, lastCall, listing>>

\* Identified leaving the challenge in the Session
IdentifiedKeepingChallenge(s, mask) ==
    [s EXCEPT !.isIdentified = TRUE, !.eventSubscriptions = mask]

\* an accepted Identify request: the session becomes identified, its
\* challenge is cleared and its subscriptions are installed
Identified(s, mask) ==
    [s EXCEPT !.isIdentified = TRUE, !.challenge = 0,
              !.eventSubscriptions = mask]

\* the authentication string a client derives from the secret and a challenge
AuthenticationString(secret, challenge) == <<secret, challenge>>

\* authentication strings clients try: every well-formed one and a wrong one
Responses ==
    {AuthenticationString(GenerateSecret(conf.ServerPassword, salt), c) :
        conf \in Configs, salt \in Salts, c \in {MaxSalt + x : x \in Salts}}
    \cup {AuthenticationString(<<"", 0>>, 0)}

\* the check of an Identify request: nothing to check without authentication,
\* otherwise the response must be the one derived from the server's secret
\* and the session's challenge
CheckAuthentication(s, response) ==
    \/ ~config.authenticationRequired
    \/ response = AuthenticationString(config.authenticationSecret, s.challenge)

\* the request handler processes an Identify request of an unidentified
\* session: a failed check closes the connection and leaves the Session as
\* it is
RequestHandlerIdentify(h, mask, response) ==
    /\ serverThread = "running"
    /\ io.pc = "idle"
    /\ lock = Free
    /\ conn[h].state = "open"
    /\ ~conn[h].paused
    /\ h \in DOMAIN sessions
    /\ ~sessions[h].isIdentified
    /\ IF CheckAuthentication(sessions[h], response)
       THEN /\ sessions' = [sessions EXCEPT ![h] = Identified(@, mask)]
            /\ conn' = conn
       ELSE /\ sessions' = sessions
            /\ conn' = [conn EXCEPT ![h] = Close(@, "AuthenticationFailed")]
    /\ UNCHANGED <<listening, serverThread, config, ctl, lock, io, tasks,
                   nBroadcasts, wire, signals, lastCall, listing>>

(* --------------------------- I/O thread ------------------------------- *)
\* conn->get_remote_endpoint()
RemoteEndpoint(h) == h
\* QDateTime::currentSecsSinceEpoch(): some time after the epoch
CurrentSecsSinceEpoch == 1

\* onOpen, lines 245-250: _sessions[hdl] under the mutex; ct is the Content-Type
\* header of the connection's upgrade request
OnOpenInsert(h, ct) ==
    /\ serverThread = "running"
    /\ io.pc = "idle"
    /\ conn[h].state = "handshake"
    /\ lock = Free
    /\ sessions' = [x \in DOMAIN sessions \cup {h} |->
                       IF x \in DOMAIN sessions THEN sessions[x] ELSE NewSession]
    /\ conn' = [conn EXCEPT ![h].state = "open"]
    /\ io' = [pc |-> "onOpen", hdl |-> h, contentType |-> ct, snap |-> NoSession]
    /\ UNCHANGED <<listening, serverThread, config, ctl, lock, tasks,
                   nBroadcasts, wire, signals, lastCall, listing>>

\* NegotiatedEncoding with an unknown Content-Type falling back to the default
NegotiatedEncodingLenient(contentType, default) ==
    IF contentType = "application/msgpack" THEN "MsgPack"
    ELSE IF contentType = "application/json" THEN "Json"
    ELSE default

\* onOpen, lines 255-265: the encoding the Content-Type header selects
NegotiatedEncoding(contentType, default) ==
    IF contentType = "" THEN default
    ELSE IF contentType = "application/json" THEN "Json"
    ELSE IF contentType = "application/msgpack" THEN "MsgPack"
    ELSE "invalid"

\* the frame _server.send is given for a message serialized for an encoding:
\* dump() with opcode text, to_msgpack() with opcode binary
Serialize(encoding) == IF encoding = "Json" THEN "json" ELSE "msgpack"

\* Opcode with every frame sent as text
OpcodeAlwaysText(encoding) == "text"

Opcode(encoding) == IF encoding = "Json" THEN "text" ELSE "binary"

\* HelloFrame with the authentication object added unconditionally
HelloFrameAlwaysAuth(encoding, authRequired, challenge, salt) ==
    [messageType |-> "Hello",
     opcode |-> IF encoding = "Json" THEN "text" ELSE "binary",
     payload |-> IF encoding = "Json" THEN "json" ELSE "msgpack",
     authentication |-> <<challenge, salt>>,
     error |-> FALSE]

\* onOpen, lines 268-291: the Hello message and its send
HelloFrame(encoding, authRequired, challenge, salt) ==
    [messageType |-> "Hello",
     opcode |-> Opcode(encoding),
     payload |-> Serialize(encoding),
     authentication |-> IF authRequired THEN <<challenge, salt>> ELSE <<>>,
     error |-> FALSE]

\* GenerateSalt() values used as session challenges
Challenges == {MaxSalt + c : c \in Salts}

\* onOpen, lines 253-291, run without the mutex on the reference taken under it
OnOpenGreet ==
    /\ io.pc = "onOpen"
    /\ LET h == io.hdl
           enc == NegotiatedEncoding(io.contentType, sessions[h].encoding)
           s1 == [sessions[h] EXCEPT !.remoteAddress = RemoteEndpoint(h),
                                     !.connectedAt = CurrentSecsSinceEpoch]
       IN
       /\ io' = IdleIo
       /\ IF enc = "invalid"
          THEN /\ sessions' = [sessions EXCEPT ![h] = s1]
               /\ conn' = IF conn[h].state = "open"
                          THEN [conn EXCEPT ![h] = Close(@, "InvalidContentType")]
                          ELSE conn
               /\ wire' = wire
          ELSE \E challenge \in (IF config.authenticationRequired
                                 THEN Challenges ELSE {0}) :
               /\ sessions' = [sessions EXCEPT ![h] =
                                  [s1 EXCEPT !.encoding = enc,
                                             !.challenge = challenge]]
               /\ \E errorCode \in SendErrors(h) :
                      wire' = Send(wire, h,
                                   HelloFrame(enc, config.authenticationRequired,
                                              challenge, config.authenticationSalt),
                                   errorCode)
               /\ conn' = conn
    /\ UNCHANGED <<listening, serverThread, config, ctl, lock, tasks,
                   nBroadcasts, signals, lastCall, listing>>

\* an inbound frame of an open connection is handed to onMessage
OnMessage(h) ==
    /\ serverThread = "running"
    /\ io.pc = "idle"
    /\ conn[h].state = "open"
    /\ ~conn[h].paused
    /\ io' = [IdleIo EXCEPT !.pc = "onMessage", !.hdl = h]
    /\ UNCHANGED <<listening, serverThread, config, ctl, lock, sessions, conn,
                   tasks, nBroadcasts, wire, signals, lastCall, listing>>

\* onMessage, lines 322-325: an empty body
OnMessageReturn ==
    /\ io.pc = "onMessage"
    /\ io' = IdleIo
    /\ UNCHANGED <<listening, serverThread, config, ctl, lock, sessions, conn,
                   tasks, nBroadcasts, wire, signals, lastCall, listing>>

\* CloseSnapshot read from a fresh entry, as if the erase came first
CloseSnapshotAfterErase(table, h) ==
    [isIdentified |-> FALSE, connectedAt |-> 0, incomingMessages |-> 0,
     outgoingMessages |-> 0, remoteAddress |-> 0]

\* onClose, lines 300-305: what is read from _sessions[hdl] before the erase
CloseSnapshot(table, h) ==
    LET s == IF h \in DOMAIN table THEN table[h] ELSE NewSession IN
    [isIdentified |-> s.isIdentified, connectedAt |-> s.connectedAt,
     incomingMessages |-> s.incomingMessages,
     outgoingMessages |-> s.outgoingMessages,
     remoteAddress |-> s.remoteAddress]

\* Erase leaving the entry in the table
EraseNothing(table, h) == table

\* Erase emptying the table
EraseAll(table, h) == <<>>

\* onClose, line 306: _sessions.erase(hdl)
Erase(table, h) == [x \in DOMAIN table \ {h} |-> table[x]]

OnCloseErase(h) ==
    /\ serverThread = "running"
    /\ io.pc = "idle"
    /\ conn[h].state = "closing"
    /\ lock = Free
    /\ io' = [pc |-> "onClose", hdl |-> h, contentType |-> "",
              snap |-> CloseSnapshot(sessions, h)]
    /\ sessions' = Erase(sessions, h)
    /\ conn' = [conn EXCEPT ![h].state = "closed"]
    /\ wire' = [wire EXCEPT ![h] = <<>>]
    /\ UNCHANGED <<listening, serverThread, config, ctl, lock, tasks,
                   nBroadcasts, signals, lastCall, listing>>

\* ClosedSignals emitting nothing for a session that was not identified
ClosedSignalsWhenIdentified(snap) ==
    IF snap.isIdentified
    THEN <<"ClientDisconnected", "IdentifiedClientDisconnected">>
    ELSE <<>>

\* onClose, lines 310-319: the signals emitted after the mutex is released,
\* each carrying the snapshot and the connection's local close code
ClosedSignals(snap) ==
    IF snap.isIdentified
    THEN <<"ClientDisconnected", "IdentifiedClientDisconnected">>
    ELSE <<"ClientDisconnected">>

OnCloseEmit ==
    /\ io.pc = "onClose"
    /\ signals' = [signals EXCEPT ![io.hdl] =
                       @ \o ClosedSignals(io.snap)]
    /\ io' = IdleIo
    /\ conn' = [conn EXCEPT ![io.hdl] = [NoConn EXCEPT !.state = "closed"]]
    /\ UNCHANGED <<listening, serverThread, config, ctl, lock, sessions,
                   tasks, nBroadcasts, wire, lastCall, listing>>

(* -------------------------- worker pool ------------------------------- *)
\* BroadcastEvent, line 203: the lambda is queued on _threadPool
BroadcastEvent(t, requiredIntent) ==
    /\ tasks[t].state = "idle"
    /\ nBroadcasts < MaxBroadcasts
    /\ nBroadcasts' = nBroadcasts + 1
    /\ tasks' = [tasks EXCEPT ![t] =
                    [IdleTask EXCEPT !.state = "queued", !.intent = requiredIntent]]
    /\ UNCHANGED <<listening, serverThread, config, ctl, lock, sessions, conn,
                   io, wire, signals, lastCall, listing>>

\* the lambda, lines 205-217: build the message, take the mutex, start the loop
TaskBegin(t) ==
    /\ tasks[t].state = "queued"
    /\ lock = Free
    /\ lock' = ByTask(t)
    /\ tasks' = [tasks EXCEPT ![t].state = "running", ![t].todo = DOMAIN sessions]
    /\ UNCHANGED <<listening, serverThread, config, ctl, sessions, conn, io,
                   nBroadcasts, wire, signals, lastCall, listing>>

\* Qualifies with the subscription mask tested for being non-zero only
QualifiesAnySubscription(s, requiredIntent) ==
    /\ s.isIdentified
    /\ s.eventSubscriptions # 0

\* Qualifies selecting every session of the table
QualifiesEverySession(s, requiredIntent) == TRUE

\* the lambda, lines 218-220: the test that selects a session
Qualifies(s, requiredIntent) ==
    /\ s.isIdentified
    /\ BitAnd(s.eventSubscriptions, requiredIntent) # 0

\* the lambda, lines 222-236: the frame sent for the session's encoding
EventFrame(opcode, message) ==
    [messageType |-> "Event",
     opcode |-> opcode,
     payload |-> message,
     authentication |-> <<>>,
     error |-> FALSE]

\* the lambda, lines 224-226 and 230-233: the message is serialized for an
\* encoding the first time a session needs it
Dumped(cached, encoding) == IF cached = "" THEN Serialize(encoding) ELSE cached

\* TaskVisit leaving the loop when a send reports an error
TaskVisitAbortingOnError(t) ==
    /\ tasks[t].state = "running"
    /\ tasks[t].todo # {}
    /\ LET h == FirstOf(tasks[t].todo)
           s == sessions[h]
       IN
       IF Qualifies(s, tasks[t].intent)
       THEN \E errorCode \in SendErrors(h) :
            /\ wire' = Send(wire, h,
                            EventFrame(Opcode(s.encoding), Serialize(s.encoding)),
                            errorCode)
            /\ tasks' = [tasks EXCEPT ![t].todo = IF errorCode THEN {} ELSE @ \ {h}]
       ELSE /\ wire' = wire
            /\ tasks' = [tasks EXCEPT ![t].todo = @ \ {h}]
    /\ UNCHANGED <<listening, serverThread, config, ctl, lock, sessions, conn,
                   io, nBroadcasts, signals, lastCall, listing>>

\* one iteration of the lambda's loop over _sessions, lines 217-238; the
\* errorCode of the send is not read and the loop goes on to the next session
TaskVisit(t) ==
    /\ tasks[t].state = "running"
    /\ tasks[t].todo # {}
    /\ LET h == FirstOf(tasks[t].todo)
           s == sessions[h]
           k == tasks[t]
           json == Dumped(k.messageJson, "Json")
           msgPack == Dumped(k.messageMsgPack, "MsgPack")
       IN
       IF Qualifies(s, k.intent)
       THEN \E errorCode \in SendErrors(h) :
            IF s.encoding = "Json"
            THEN /\ wire' = Send(wire, h, EventFrame("text", json), errorCode)
                 /\ tasks' = [tasks EXCEPT ![t].todo = @ \ {h},
                                           ![t].messageJson = json]
            ELSE /\ wire' = Send(wire, h, EventFrame("binary", msgPack), errorCode)
                 /\ tasks' = [tasks EXCEPT ![t].todo = @ \ {h},
                                           ![t].messageMsgPack = msgPack]
       ELSE /\ wire' = wire
            /\ tasks' = [tasks EXCEPT ![t].todo = @ \ {h}]
    /\ UNCHANGED <<listening, serverThread, config, ctl, lock, sessions, conn,
                   io, nBroadcasts, signals, lastCall, listing>>

\* the lambda, line 239: lock.unlock(), and the task is done
TaskEnd(t) ==
    /\ tasks[t].state = "running"
    /\ tasks[t].todo = {}
    /\ lock' = Free
    /\ tasks' = [tasks EXCEPT ![t] = IdleTask]
    /\ UNCHANGED <<listening, serverThread, config, ctl, sessions, conn, io,
                   nBroadcasts, wire, signals, lastCall, listing>>

(* --------------------------- specification ---------------------------- *)
Next ==
    \/ Start
    \/ StopBegin
    \/ StopLock
    \/ StopCloseSession
    \/ StopUnlock
    \/ StopWaitForDone
    \/ StopPoll
    \/ StopJoin
    \/ GetWebSocketSessions
    \/ GetWebSocketSessionsReturn
    \/ OnMessageReturn
    \/ OnOpenGreet
    \/ OnCloseEmit
    \/ \E h \in Conns :
        \/ InvalidateSession(h)
        \/ ClientClose(h)
        \/ OnMessage(h)
        \/ OnCloseErase(h)
        \/ ClientConnect(h)
        \/ HandshakeFail(h)
    \/ \E h \in Conns, ct \in ContentTypes : OnOpenInsert(h, ct)
    \/ \E h \in Conns, mask \in SubscriptionMasks, response \in Responses :
          RequestHandlerIdentify(h, mask, response)
    \/ \E t \in Tasks, requiredIntent \in Intents : BroadcastEvent(t, requiredIntent)
    \/ \E t \in Tasks :
        \/ TaskBegin(t)
        \/ TaskVisit(t)
        \/ TaskEnd(t)

Spec == Init /\ [][Next]_vars

\* Scheduling: a thread that can take a step eventually takes it, and a thread
\* waiting for _sessionMutex gets it if it is free again and again. Clients
\* and the host (connecting, closing, broadcasting, calling Start, Stop,
\* InvalidateSession or GetWebSocketSessions) are under no obligation.
Fairness ==
    /\ SF_vars(StopLock)
    /\ WF_vars(StopCloseSession)
    /\ WF_vars(StopUnlock)
    /\ WF_vars(StopWaitForDone)
    /\ WF_vars(StopPoll)
    /\ WF_vars(StopJoin)
    /\ WF_vars(GetWebSocketSessionsReturn)
    /\ SF_vars(\E h \in Conns, ct \in ContentTypes : OnOpenInsert(h, ct))
    /\ WF_vars(OnOpenGreet)
    /\ WF_vars(OnMessageReturn)
    /\ SF_vars(\E h \in Conns : OnCloseErase(h))
    /\ WF_vars(OnCloseEmit)
    /\ SF_vars(\E t \in Tasks : TaskBegin(t))
    /\ WF_vars(\E t \in Tasks : TaskVisit(t))
    /\ WF_vars(\E t \in Tasks : TaskEnd(t))

FairSpec == Spec /\ Fairness

(* ------------------------------- claims -------------------------------- *)
\* bit positions of the modelled intent and subscription masks
IntentBits == {0, 1}
Bit(mask, i) == (mask \div (2 ^ i)) % 2
SharesBit(a, b) == \E i \in IntentBits : Bit(a, i) = 1 /\ Bit(b, i) = 1

\* a frame is handed to _server.send for h in this step
SentTo(h) == Len(wire'[h]) > Len(wire[h])
\* the frame sent to h in this step
FrameSent(h) == wire'[h][Len(wire'[h])]
\* task t finishes its iteration for session h in this step
Visits(t, h) ==
    /\ tasks[t].state = "running"
    /\ h \in tasks[t].todo
    /\ tasks'[t].state = "running"
    /\ h \notin tasks'[t].todo

\* C1: when a broadcast task iterates a session of the table, it sends the
\* event to that session if and only if the session is identified and its
\* subscription mask shares a bit with requiredIntent; nothing is sent to any
\* other session in that iteration.
C1_BroadcastFilter ==
    [][\A t \in Tasks, h \in Conns :
          Visits(t, h) =>
             /\ SentTo(h) <=> (/\ sessions[h].isIdentified
                               /\ SharesBit(sessions[h].eventSubscriptions,
                                            tasks[t].intent))
             /\ SentTo(h) => /\ Len(wire'[h]) = Len(wire[h]) + 1
                             /\ FrameSent(h).messageType = "Event"
             /\ \A g \in Conns \ {h} : wire'[g] = wire[g]]_vars

\* sessions subscribed to {A} and {A,B}: a broadcast of intent B has iterated
\* both and delivered only to the second
C1_Witness ==
    \E t \in Tasks, g, h \in DOMAIN sessions :
        /\ tasks[t].state = "running"
        /\ tasks[t].intent = 2
        /\ tasks[t].todo = {}
        /\ sessions[g].isIdentified /\ sessions[g].eventSubscriptions = 1
        /\ sessions[h].isIdentified /\ sessions[h].eventSubscriptions = 3
        /\ Len(wire[g]) = 1
        /\ Len(wire[h]) = 2
        /\ wire[h][2].messageType = "Event"

\* the Content-Type values onOpen accepts
Recognized(ct) == ct \in {"", "application/json", "application/msgpack"}
\* the I/O thread returns from onOpen(h) in this step
OnOpenReturns(h) == io.pc = "onOpen" /\ io.hdl = h /\ io'.pc = "idle"

Stopped == serverThread = "joined" /\ ctl.pc = "idle" /\ ~listening

\* C3: after Stop() has returned the session table is empty and no frame
\* (greeting or event) is sent to any session, whatever broadcast tasks and
\* handlers were interleaved with Stop().
C3_AfterStop ==
    /\ [](Stopped => DOMAIN sessions = {})
    /\ [][Stopped => wire' = wire]_vars

\* Stop() has returned after an identified session was torn down, and a
\* broadcast task is running
C3_Witness ==
    /\ Stopped
    /\ \E t \in Tasks : tasks[t].state = "running"
    /\ \E h \in Conns :
          signals[h] = <<"ClientDisconnected", "IdentifiedClientDisconnected">>

\* C4: every call of Stop() on a listening server eventually returns.
C4_StopReturns == (ctl.pc # "idle") ~> (ctl.pc = "idle")

\* C5: whenever a thread is inside code that reads or writes _sessions or a
\* Session (onOpen's configuration of the new Session, Stop()'s emptiness
\* poll), that thread holds _sessionMutex.
C5_AccessUnderMutex ==
    /\ io.pc = "onOpen" => lock = ByIo
    /\ ctl.pc = "stop_poll" => lock = ByStop

\* an Event frame is sent to h in this step
EventSentTo(h) == SentTo(h) /\ FrameSent(h).messageType = "Event"
\* Stop() returns from _serverThread.join() in this step
Joins == serverThread = "running" /\ serverThread' = "joined"

\* C6 as stated: no broadcast task sends to a session after Stop() has begun
\* closing that session, and the I/O thread is not joined while a broadcast
\* task is running or queued.
C6_NoSendAfterCloseBegun ==
    [][/\ \A h \in Conns : EventSentTo(h) => h \notin ctl.visited
       /\ Joins => PoolDone]_vars

\* C6 as amended: no broadcast task sends to a session after onClose has
\* removed it from the table, and when the I/O thread is joined the table is
\* empty and no broadcast task has a session left to iterate.
C6_NoSendAfterRemoval ==
    [][/\ \A h \in Conns :
             EventSentTo(h) => h \in DOMAIN sessions /\ conn[h].state # "closed"
       /\ Joins => /\ DOMAIN sessions = {}
                   /\ \A t \in Tasks : tasks[t].todo = {}]_vars

\* a broadcast task that took the mutex after Stop()'s loop has sent its event
\* to a session the loop had closed with going_away
C6_Witness ==
    /\ ctl.pc = "stop_wait"
    /\ \E t \in Tasks, h \in ctl.visited :
          /\ tasks[t].state = "running"
          /\ tasks[t].todo = {}
          /\ conn[h].closeCode = "going_away"
          /\ Len(wire[h]) = 2
          /\ wire[h][2].messageType = "Event"

\* the wire format of an encoding
WireFormat(encoding) ==
    IF encoding = "Json" THEN [opcode |-> "text", payload |-> "json"]
    ELSE [opcode |-> "binary", payload |-> "msgpack"]

\* C7: a session's encoding is decided when onOpen returns (Json for an absent
\* Content-Type or application/json, MsgPack for application/msgpack), never
\* changes afterwards, and every frame sent to the session (Hello or Event)
\* is a text frame of JSON for Json and a binary frame of MsgPack for MsgPack.
C7_EncodingFixed ==
    [][\A h \in Conns :
          /\ (OnOpenReturns(h) /\ io.contentType \in {"", "application/json"})
                => sessions'[h].encoding = "Json"
          /\ (OnOpenReturns(h) /\ io.contentType = "application/msgpack")
                => sessions'[h].encoding = "MsgPack"
          /\ (/\ h \in DOMAIN sessions
              /\ h \in DOMAIN sessions'
              /\ ~(io.pc = "onOpen" /\ io.hdl = h))
                => sessions'[h].encoding = sessions[h].encoding
          /\ SentTo(h) =>
                /\ FrameSent(h).opcode = WireFormat(sessions'[h].encoding).opcode
                /\ FrameSent(h).payload = WireFormat(sessions'[h].encoding).payload]_vars

\* a MsgPack session and a Json session have each been sent their Hello and an
\* Event by the same broadcast
C7_Witness ==
    \E g, h \in DOMAIN sessions :
        /\ sessions[g].encoding = "MsgPack"
        /\ sessions[h].encoding = "Json"
        /\ Len(wire[g]) = 2 /\ wire[g][2].opcode = "binary"
        /\ Len(wire[h]) = 2 /\ wire[h][2].opcode = "text"

\* C8: when onOpen returns for a connection with an absent or recognized
\* Content-Type it has sent exactly one frame, a Hello; the Hello carries
\* {challenge, salt} iff authentication is required, with the challenge stored
\* in the session and the salt captured by Start(); without authentication
\* the session stores no challenge. No other step sends a Hello, and the
\* captured configuration does not change while the I/O thread runs.
C8_HelloGreeting ==
    [][/\ \A h \in Conns :
             /\ (OnOpenReturns(h) /\ Recognized(io.contentType)) =>
                   /\ wire[h] = <<>>
                   /\ Len(wire'[h]) = 1
                   /\ wire'[h][1].messageType = "Hello"
                   /\ config.authenticationRequired =>
                         /\ sessions'[h].challenge # 0
                         /\ wire'[h][1].authentication =
                               <<sessions'[h].challenge,
                                 config.authenticationSalt>>
                   /\ ~config.authenticationRequired =>
                         /\ sessions'[h].challenge = 0
                         /\ wire'[h][1].authentication = <<>>
             /\ (SentTo(h) /\ ~OnOpenReturns(h)) =>
                   FrameSent(h).messageType # "Hello"
       /\ serverThread = "running" => config' = config]_vars

\* a session greeted with {challenge, salt} while authentication is required,
\* after another connection has been closed
C8_Witness ==
    /\ config.authenticationRequired
    /\ \E g \in Conns : signals[g] # <<>>
    /\ \E h \in DOMAIN sessions :
          /\ Len(wire[h]) = 1
          /\ sessions[h].challenge # 0
          /\ wire[h][1].authentication =
                <<sessions[h].challenge, config.authenticationSalt>>

\* the I/O thread erases the Session of h in this step
Erases(h) == h \in DOMAIN sessions /\ h \notin DOMAIN sessions'
\* the I/O thread returns from onClose in this step
OnCloseReturns == io.pc = "onClose" /\ io'.pc = "idle"

\* C9: onClose reads its snapshot of the Session and erases the Session in one
\* step taken with _sessionMutex free before and after; the signals are
\* emitted by a later step, ClientDisconnected always and
\* IdentifiedClientDisconnected iff the Session was identified when erased.
C9_CloseSignals ==
    [][/\ \A h \in Conns :
             Erases(h) =>
                /\ lock = Free /\ lock' = Free
                /\ io'.pc = "onClose" /\ io'.hdl = h
                /\ io'.snap.isIdentified = sessions[h].isIdentified
                /\ io'.snap.connectedAt = sessions[h].connectedAt
                /\ io'.snap.incomingMessages = sessions[h].incomingMessages
                /\ io'.snap.outgoingMessages = sessions[h].outgoingMessages
                /\ io'.snap.remoteAddress = sessions[h].remoteAddress
                /\ signals' = signals
       /\ OnCloseReturns =>
             /\ io.hdl \notin DOMAIN sessions
             /\ signals'[io.hdl] =
                   IF io.snap.isIdentified
                   THEN <<"ClientDisconnected", "IdentifiedClientDisconnected">>
                   ELSE <<"ClientDisconnected">>
       /\ ~OnCloseReturns => signals' = signals]_vars

\* an identified and an unidentified session have both been closed
C9_Witness ==
    \E g, h \in Conns :
        /\ signals[g] = <<"ClientDisconnected", "IdentifiedClientDisconnected">>
        /\ signals[h] = <<"ClientDisconnected">>

\* the I/O thread returns from onMessage in this step
OnMessageReturns == io.pc = "onMessage" /\ io'.pc = "idle"

\* C10: incomingMessages grows by one for each inbound frame handled by
\* onMessage, outgoingMessages grows by one for each frame the server sends to
\* the session, and neither counter ever decreases.
C10_MessageCounters ==
    [][\A h \in DOMAIN sessions :
          /\ (OnMessageReturns /\ io.hdl = h) =>
                sessions'[h].incomingMessages = sessions[h].incomingMessages + 1
          /\ SentTo(h) =>
                sessions'[h].outgoingMessages = sessions[h].outgoingMessages + 1
          /\ h \in DOMAIN sessions' =>
                /\ sessions'[h].incomingMessages >= sessions[h].incomingMessages
                /\ sessions'[h].outgoingMessages >= sessions[h].outgoingMessages]_vars

\* everything but the record of the last call's outcome
serverState ==
    <<listening, serverThread, config, ctl, lock, sessions, conn, io, tasks,
      nBroadcasts, wire, signals, listing>>

\* Stop() passes its listening test and starts the teardown in this step
StopEnters == ctl.pc = "idle" /\ ctl'.pc = "stop_lock"
\* Stop() is called on a server that is not listening in this step
StopWarns ==
    /\ ctl.pc = "idle"
    /\ ~listening
    /\ lastCall' = "Stop: not listening"
    /\ lastCall' # lastCall

\* C11: the teardown starts only in a Stop() that finds the server listening
\* and the I/O thread is joined only at the end of that teardown; a Stop() on
\* a server that is not listening (the second of two calls in a row) changes
\* nothing but the log, and once Stop() has returned nothing is closed or
\* joined again until the server listens again.
C11_StopIdempotent ==
    [][/\ StopEnters => listening /\ ~listening'
       /\ Joins => ctl.pc = "stop_join" /\ ctl'.pc = "idle"
       /\ StopWarns => UNCHANGED serverState
       /\ (Stopped /\ ~listening') =>
              /\ ctl' = ctl
              /\ serverThread' = serverThread
              /\ conn' = conn
              /\ sessions' = sessions]_vars

\* Stop() has been called again after a teardown that closed a session
C11_Witness ==
    /\ lastCall = "Stop: not listening"
    /\ Stopped
    /\ \E h \in Conns : conn[h].state = "closed" /\ signals[h] # <<>>

\* Start() is called on a listening server in this step
StartWarns ==
    /\ ctl.pc = "idle"
    /\ listening
    /\ lastCall' = "Start: already listening"
    /\ lastCall' # lastCall

\* C12: a Start() on a listening server changes nothing but the log; the
\* configuration snapshot, salt and secret do not change while the server
\* listens or its I/O thread runs, and every Hello with an authentication
\* object held by a session of the table carries the current salt.
C12_StartWhileListening ==
    /\ [] [/\ StartWarns => UNCHANGED serverState
           /\ (listening \/ serverThread = "running") => config' = config]_vars
    /\ [](\A h \in DOMAIN sessions : \A i \in 1..Len(wire[h]) :
             (wire[h][i].messageType = "Hello" /\ wire[h][i].authentication # <<>>)
                => wire[h][i].authentication[2] = config.authenticationSalt)

\* Start() has been called again while a session greeted with the salt is
\* connected
C12_Witness ==
    /\ lastCall = "Start: already listening"
    /\ listening
    /\ \E h \in DOMAIN sessions :
          /\ Len(wire[h]) >= 1
          /\ wire[h][1].authentication # <<>>
          /\ wire[h][1].authentication[2] = config.authenticationSalt

\* a Start() whose listen() fails returns in this step
ListenFails ==
    /\ ctl.pc = "idle"
    /\ lastCall' = "Start: listen failed"
    /\ lastCall' # lastCall

\* C13: a Start() whose listen() fails leaves the server not listening,
\* spawns no I/O thread and accepts no connection; from the state it leaves,
\* no teardown begins (a Stop() only warns), no connection is accepted, and
\* a Start() does not take the already-listening branch but attempts again.
C13_ListenFailure ==
    /\ [] [/\ ListenFails =>
                 /\ ~listening /\ ~listening'
                 /\ serverThread' = serverThread
                 /\ UNCHANGED <<ctl, lock, sessions, conn, io, tasks, wire, signals>>
           /\ lastCall = "Start: listen failed" =>
                 /\ ctl' = ctl
                 /\ conn' = conn
                 /\ lastCall' \in {"Start: listen failed", "Start: started",
                                   "Start: no config", "Stop: not listening"}
                 /\ (serverThread' # serverThread) => (lastCall' = "Start: started")]_vars
    /\ [](lastCall = "Start: listen failed" =>
             /\ ~listening
             /\ serverThread # "running"
             /\ \A h \in Conns : conn[h].state \in {"none", "failed", "closed"})

\* listen() has failed in a Start() that followed a complete Stop()
C13_Witness ==
    /\ lastCall = "Start: listen failed"
    /\ serverThread = "joined"
    /\ \E h \in Conns : conn[h].state = "closed"

\* a Session for h enters the table in this step
Inserts(h) == h \notin DOMAIN sessions /\ h \in DOMAIN sessions'

\* C14: a Session for a handle is in the table exactly from the insertion by
\* its onOpen to the erase by its onClose: the table holds the handles whose
\* connection has been opened and not yet reported closed, a message is only
\* handled for a handle in the table, an entry appears only in the step that
\* enters onOpen for it and disappears only in the step that enters onClose
\* for it.
C14_TableMembership ==
    /\ [](\A h \in Conns :
             h \in DOMAIN sessions <=> conn[h].state \in {"open", "closing"})
    /\ [](io.pc = "onMessage" => io.hdl \in DOMAIN sessions)
    /\ [] [\A h \in Conns :
              /\ Inserts(h) => /\ conn[h].state = "handshake"
                               /\ io.pc = "idle"
                               /\ io'.pc = "onOpen" /\ io'.hdl = h
              /\ Erases(h) => /\ conn[h].state = "closing"
                              /\ io.pc = "idle"
                              /\ io'.pc = "onClose" /\ io'.hdl = h]_vars

\* while Stop() drains, one session closed by its loop is still in the table
\* and the other has been erased by onClose
C14_Witness ==
    /\ ctl.pc = "stop_poll"
    /\ \E g, h \in Conns :
          /\ g \in DOMAIN sessions /\ conn[g].state = "closing"
          /\ h \notin DOMAIN sessions /\ conn[h].state = "closed"

\* the request handler closes h after a failed authentication check in this step
AuthenticationFails(h) ==
    /\ conn[h].closeCode # "AuthenticationFailed"
    /\ conn'[h].closeCode = "AuthenticationFailed"

\* C15: an identified session holds no challenge; onOpen stores a challenge
\* iff authentication is required, the challenge is cleared only in the step
\* that makes the session identified, and a failed authentication check
\* leaves the challenge and the session as they are.
C15_IdentifiedNoChallenge ==
    /\ [](\A h \in DOMAIN sessions :
             sessions[h].isIdentified => sessions[h].challenge = 0)
    /\ [] [\A h \in DOMAIN sessions :
              /\ (OnOpenReturns(h) /\ Recognized(io.contentType)) =>
                    (sessions'[h].challenge # 0 <=> config.authenticationRequired)
              /\ (/\ h \in DOMAIN sessions'
                  /\ sessions[h].challenge # 0
                  /\ sessions'[h].challenge = 0) =>
                    /\ ~sessions[h].isIdentified
                    /\ sessions'[h].isIdentified
              /\ AuthenticationFails(h) =>
                    /\ config.authenticationRequired
                    /\ sessions' = sessions
                    /\ ~sessions[h].isIdentified]_vars

\* a session greeted with a challenge has become identified
C15_Witness ==
    \E h \in DOMAIN sessions :
        /\ sessions[h].isIdentified
        /\ sessions[h].challenge = 0
        /\ Len(wire[h]) >= 1
        /\ wire[h][1].authentication # <<>>
        /\ wire[h][1].authentication[1] # 0

\* task t leaves its loop and unlocks in this step
TaskEnds(t) == tasks[t].state = "running" /\ tasks'[t].state = "idle"
\* an Event frame has been handed to _server.send for h
EventIn(w) == \E i \in 1..Len(w) : w[i].messageType = "Event"

\* C16: a send that reports an error does not end the fan-out: the task goes
\* on with exactly the sessions it had left, it leaves its loop only when none
\* is left, and when it does, an Event has been handed to the transport for
\* every session of the table that is identified and subscribed to
\* requiredIntent.
C16_FanOutContinues ==
    [][\A t \in Tasks :
          /\ \A h \in Conns :
                (Visits(t, h) /\ SentTo(h) /\ FrameSent(h).error) =>
                    /\ tasks'[t].todo = tasks[t].todo \ {h}
                    /\ lock' = ByTask(t)
          /\ TaskEnds(t) =>
                /\ tasks[t].todo = {}
                /\ \A h \in DOMAIN sessions :
                      (/\ sessions[h].isIdentified
                       /\ SharesBit(sessions[h].eventSubscriptions, tasks[t].intent))
                         => EventIn(wire[h])]_vars

\* the send to the first session of the table reported an error and the
\* second session was still sent the event
C16_Witness ==
    \E t \in Tasks, g, h \in DOMAIN sessions :
        /\ g < h
        /\ tasks[t].state = "running"
        /\ tasks[t].todo = {}
        /\ Len(wire[g]) = 2
        /\ wire[g][2].messageType = "Event" /\ wire[g][2].error
        /\ Len(wire[h]) = 2
        /\ wire[h][2].messageType = "Event" /\ ~wire[h][2].error

\* Stop()'s loop finishes its iteration for session h in this step
StopVisits(h) == ctl.pc = "stop_loop" /\ h \in ctl.todo /\ h \notin ctl'.todo
\* Stop() takes the mutex and starts its loop in this step
StopLocks == ctl.pc = "stop_lock" /\ ctl'.pc = "stop_loop"
\* Stop() leaves its loop and unlocks in this step
StopUnlocks == ctl.pc = "stop_loop" /\ ctl'.pc = "stop_wait"

\* C17: Stop()'s loop iterates every session of the table. An iteration
\* touches only its own connection: an open connection is paused and closing
\* with going_away afterwards unless pause_reading reported an error, which
\* leaves it as it was; a connection that is no longer open keeps its state
\* and close code. Whatever the outcome, the loop goes on with the sessions
\* it had left and unlocks only after it has iterated all of them.
C17_StopClosesEvery ==
    [][/\ StopLocks => ctl'.todo = DOMAIN sessions /\ ctl'.visited = {}
       /\ \A h \in Conns :
             StopVisits(h) =>
                /\ ctl'.pc = "stop_loop"
                /\ ctl'.todo = ctl.todo \ {h}
                /\ ctl'.visited = ctl.visited \cup {h}
                /\ \A g \in Conns \ {h} : conn'[g] = conn[g]
                /\ conn[h].state = "open" =>
                      \/ conn'[h] = conn[h]
                      \/ /\ conn'[h].paused
                         /\ conn'[h].state = "closing"
                         /\ conn'[h].closeCode = "going_away"
                /\ conn[h].state # "open" =>
                      /\ conn'[h].state = conn[h].state
                      /\ conn'[h].closeCode = conn[h].closeCode
       /\ StopUnlocks => ctl.todo = {} /\ ctl.visited = DOMAIN sessions]_vars

\* Stop()'s loop has finished: pause_reading failed for the first session,
\* which is still open, and the second has been paused and closed
C17_Witness ==
    /\ ctl.pc = "stop_wait"
    /\ \E g, h \in ctl.visited :
          /\ g < h
          /\ conn[g].state = "open" /\ ~conn[g].paused
          /\ conn[h].state = "closing" /\ conn[h].paused
          /\ conn[h].closeCode = "going_away"

\* the connection of h is closed with SessionInvalidated in this step
Invalidates(h) ==
    /\ conn[h].closeCode # "SessionInvalidated"
    /\ conn'[h].closeCode = "SessionInvalidated"

\* C18: the step that closes a connection with SessionInvalidated finds it
\* open, leaves it paused and closing, and changes no other connection, no
\* Session, and nothing else of the server; a connection is never closed
\* with that code without its reads having been paused; the Session of the
\* connection stays in the table until the step that enters onClose for it.
C18_InvalidateSession ==
    /\ [] [\A h \in Conns :
              /\ Invalidates(h) =>
                    /\ conn[h].state = "open"
                    /\ conn'[h].state = "closing"
                    /\ conn'[h].paused
                    /\ \A g \in Conns \ {h} : conn'[g] = conn[g]
                    /\ UNCHANGED <<listening, serverThread, config, ctl, lock,
                                   sessions, io, tasks, nBroadcasts, wire,
                                   signals, lastCall, listing>>
              /\ (Erases(h) /\ conn[h].closeCode = "SessionInvalidated") =>
                    /\ io'.pc = "onClose" /\ io'.hdl = h
                    /\ \A g \in DOMAIN sessions \ {h} : g \in DOMAIN sessions']_vars
    /\ [](\A h \in Conns :
             conn[h].closeCode = "SessionInvalidated" =>
                /\ conn[h].paused
                /\ \/ conn[h].state = "closing" /\ h \in DOMAIN sessions
                   \/ /\ conn[h].state = "closed" /\ h \notin DOMAIN sessions
                      /\ io.pc = "onClose" /\ io.hdl = h)

\* one session has been invalidated and is still in the table; the other is
\* open, not paused, and has its greeting
C18_Witness ==
    \E g, h \in DOMAIN sessions :
        /\ conn[h].closeCode = "SessionInvalidated"
        /\ conn[h].state = "closing"
        /\ conn[g].state = "open" /\ ~conn[g].paused
        /\ Len(wire[g]) = 1

\* C19: the first frame handed to the transport for a session is its Hello
\* and every later one is an Event: an Event is sent to a session only after
\* its Hello, never while its onOpen is still running, whether or not
\* authentication is required.
C19_HelloFirst ==
    /\ [](\A h \in Conns : \A i \in 1..Len(wire[h]) :
             wire[h][i].messageType = IF i = 1 THEN "Hello" ELSE "Event")
    /\ [] [\A h \in Conns :
              EventSentTo(h) =>
                 /\ wire[h] # <<>>
                 /\ wire[h][1].messageType = "Hello"
                 /\ ~(io.pc = "onOpen" /\ io.hdl = h)]_vars

\* a broadcast task has iterated a session whose onOpen had inserted it but
\* not yet greeted it, and sent its event only to the other session, which
\* was greeted with a challenge before
C19_Witness ==
    /\ io.pc = "onOpen"
    /\ wire[io.hdl] = <<>>
    /\ \E t \in Tasks, h \in DOMAIN sessions :
          /\ tasks[t].state = "running"
          /\ tasks[t].todo = {}
          /\ Len(wire[h]) = 2
          /\ wire[h][1].messageType = "Hello"
          /\ wire[h][1].authentication # <<>>
          /\ wire[h][2].messageType = "Event"

\* how many times signal was emitted for a handle
Emitted(h, signal) ==
    Cardinality({i \in 1..Len(signals[h]) : signals[h][i] = signal})

\* C20: for every handle ClientDisconnected and IdentifiedClientDisconnected
\* are emitted at most once; signals are emitted only by onClose, after its
\* erase; a connection that was never opened, or is still in the table, has
\* none; once onClose has returned for a connection exactly one
\* ClientDisconnected has been emitted for it.
C20_DisconnectSignals ==
    /\ [](\A h \in Conns :
             /\ Emitted(h, "ClientDisconnected") <= 1
             /\ Emitted(h, "IdentifiedClientDisconnected") <= 1
             /\ Emitted(h, "IdentifiedClientDisconnected")
                   <= Emitted(h, "ClientDisconnected")
             /\ (conn[h].state # "closed" \/ h \in DOMAIN sessions)
                   => signals[h] = <<>>
             /\ (conn[h].state = "closed" /\ ~(io.pc = "onClose" /\ io.hdl = h))
                   => Emitted(h, "ClientDisconnected") = 1)
    /\ [] [\A h \in Conns :
              signals'[h] # signals[h] =>
                 /\ io.pc = "onClose" /\ io.hdl = h
                 /\ h \notin DOMAIN sessions
                 /\ signals[h] = <<>>]_vars

\* Stop() has returned after a broadcast: the session that was identified
\* has been notified with both signals, and the connection whose handshake
\* failed with none
C20_Witness ==
    /\ Stopped
    /\ nBroadcasts > 0
    /\ \E g, h \in Conns :
          /\ signals[g] = <<"ClientDisconnected", "IdentifiedClientDisconnected">>
          /\ conn[g].state = "closed"
          /\ signals[h] = <<>>
          /\ conn[h].state = "failed"

=============================================================================
